---- MODULE Spec2Model ----
(***************************************************************************)
(* The sandboxed text-editing engine of src/engine/server.ts: the path     *)
(* guard, the tool handlers (view, search, line-replace, write, rename,    *)
(* delete) and the dispatcher loop, over a small file system.              *)
(*                                                                         *)
(* A string is a sequence of characters; a character is a TLA+ string      *)
(* (the control characters are written "LF" and "CR", the backslash        *)
(* "BS").  Paths are POSIX paths (path.sep = "/").                         *)
(***************************************************************************)
EXTENDS Integers, Sequences, FiniteSets, TLC

\* fs            the files: absolute path |-> content
\* toolCalls     the tool calls of the assistant message not yet dispatched
\* toolMessages  the results of the calls dispatched so far, in call order
\* orig          the files as they were when the message arrived
\* peerCalls     the calls not yet dispatched of a second /chat request in flight
\* peerMessages  the results of the calls that request dispatched so far
VARIABLES fs, toolCalls, toolMessages, orig, peerCalls, peerMessages

vars == <<fs, toolCalls, toolMessages, orig, peerCalls, peerMessages>>

LF == "LF"
CR == "CR"
BS == "BS"

(***************************************************************************)
(* String primitives of JavaScript, as the handlers use them.              *)
(***************************************************************************)
Min(a, b) == IF a <= b THEN a ELSE b
Max(a, b) == IF a >= b THEN a ELSE b

\* s.slice(from0) / s.slice(from0, to0) on 0-based offsets inside 0..Len(s)
Slice(s, from0, to0) == SubSeq(s, from0 + 1, to0)

startsWith(s, p) == Len(p) <= Len(s) /\ SubSeq(s, 1, Len(p)) = p

endsWith(s, p) == Len(p) <= Len(s) /\ SubSeq(s, Len(s) - Len(p) + 1, Len(s)) = p

\* s.indexOf(t): the 0-based offset of the first occurrence, or -1
indexOf(s, t) ==
    LET hits == {i \in 0..(Len(s) - Len(t)) : SubSeq(s, i + 1, i + Len(t)) = t}
    IN  IF hits = {} THEN -1 ELSE CHOOSE i \in hits : \A j \in hits : i <= j

includes(s, t) == indexOf(s, t) # -1

\* s.split(t) for a non-empty separator t: leftmost non-overlapping occurrences
RECURSIVE split(_, _)
split(s, t) ==
    LET i == indexOf(s, t)
    IN  IF i = -1 THEN <<s>>
        ELSE <<Slice(s, 0, i)>> \o split(Slice(s, i + Len(t), Len(s)), t)

\* lines.join(sep)
RECURSIVE join(_, _)
join(parts, sep) ==
    IF Len(parts) = 0 THEN <<>>
    ELSE IF Len(parts) = 1 THEN parts[1]
    ELSE parts[1] \o sep \o join(Tail(parts), sep)

\* s.replace(/\r\n/g, "\n")
normalizeCRLF(s) == join(split(s, <<CR, LF>>), <<LF>>)

\* raw.split(/\r?\n/): scan left to right, a CR LF pair or a lone LF ends a line
RECURSIVE splitLinesFrom(_, _, _)
splitLinesFrom(s, i, cur) ==
    IF i > Len(s) THEN <<cur>>
    ELSE IF s[i] = CR /\ i < Len(s) /\ s[i + 1] = LF
         THEN <<cur>> \o splitLinesFrom(s, i + 2, <<>>)
    ELSE IF s[i] = LF THEN <<cur>> \o splitLinesFrom(s, i + 1, <<>>)
    ELSE splitLinesFrom(s, i + 1, Append(cur, s[i]))

splitLines(raw) == splitLinesFrom(raw, 1, <<>>)

(***************************************************************************)
(* node:path, POSIX flavour, on the paths the handlers build.              *)
(***************************************************************************)
SEP == "/"

RECURSIVE normalizeSegments(_, _)
\* path.normalize on a list of segments: "" and "." vanish, ".." pops
normalizeSegments(segs, acc) ==
    IF Len(segs) = 0 THEN acc
    ELSE LET h == Head(segs)
         IN  IF h = <<>> \/ h = <<".">> THEN normalizeSegments(Tail(segs), acc)
             ELSE IF h = <<".", ".">>
                  THEN normalizeSegments(Tail(segs),
                           IF Len(acc) = 0 THEN acc ELSE SubSeq(acc, 1, Len(acc) - 1))
             ELSE normalizeSegments(Tail(segs), Append(acc, h))

\* the segments of an absolute path
pathSegments(p) == normalizeSegments(split(p, <<SEP>>), <<>>)

\* path.join(base, seg) for an absolute base (no trailing separator is kept)
pathJoin(base, seg) == <<SEP>> \o join(pathSegments(base \o <<SEP>> \o seg), <<SEP>>)

\* path.resolve of an absolute path
pathResolve(p) == <<SEP>> \o join(pathSegments(p), <<SEP>>)

RECURSIVE commonPrefixLen(_, _)
commonPrefixLen(a, b) ==
    IF Len(a) = 0 \/ Len(b) = 0 \/ Head(a) # Head(b) THEN 0
    ELSE 1 + commonPrefixLen(Tail(a), Tail(b))

\* path.relative(from, to) for absolute paths
pathRelative(from, to) ==
    LET a == pathSegments(from)
        b == pathSegments(to)
        k == commonPrefixLen(a, b)
        ups == [i \in 1..(Len(a) - k) |-> <<".", ".">>]
    IN  join(ups \o SubSeq(b, k + 1, Len(b)), <<SEP>>)

\* the offsets (1-based) of the separators of p
sepPositions(p) == {i \in 1..Len(p) : p[i] = SEP}

lastSep(p) == CHOOSE i \in sepPositions(p) : \A j \in sepPositions(p) : j <= i

\* path.dirname(p), p without a trailing separator
pathDirname(p) ==
    IF sepPositions(p) = {} THEN <<".">>
    ELSE IF lastSep(p) = 1 THEN <<SEP>>
    ELSE SubSeq(p, 1, lastSep(p) - 1)

\* path.basename(p), p without a trailing separator
pathBasename(p) ==
    IF sepPositions(p) = {} THEN p ELSE SubSeq(p, lastSep(p) + 1, Len(p))

(***************************************************************************)
(* The path guard.                                                         *)
(***************************************************************************)
\* path.resolve(path.join(__dirname, "..", "workspace"))
WORKSPACE == <<"/", "r", "/", "w", "o", "r", "k", "s", "p", "a", "c", "e">>

WorkspacePrefix == <<"w", "o", "r", "k", "s", "p", "a", "c", "e", "/">>

BackupSuffix == <<".", "b", "a", "k">>

NodeModules == <<"n", "o", "d", "e", "_", "m", "o", "d", "u", "l", "e", "s">>

DotGit == <<".", "g", "i", "t">>

isPathInside(childPath, parentPath) ==
    startsWith(pathResolve(childPath) \o <<SEP>>, pathResolve(parentPath) \o <<SEP>>)

\* safeJoin(WORKSPACE, seg): the error it throws ("none": it returns pathJoin)
safeJoinError(base, seg) ==
    IF includes(seg, <<".", ".">>) THEN "Path traversal blocked"
    ELSE IF ~isPathInside(pathJoin(base, seg), base) THEN "Path escapes workspace"
    ELSE "none"

safeJoin(base, seg) == pathJoin(base, seg)

\* String.prototype.toLowerCase on the letters the model's paths use
toLowerChar(c) ==
    CASE c = "W" -> "w" [] c = "O" -> "o" [] c = "R" -> "r" [] c = "K" -> "k"
      [] c = "S" -> "s" [] c = "P" -> "p" [] c = "A" -> "a" [] c = "C" -> "c"
      [] c = "E" -> "e" [] OTHER -> c

toLowerCase(s) == [i \in 1..Len(s) |-> toLowerChar(s[i])]

RECURSIVE stripLeadingSeparators(_)
\* p.replace(/^[\\/]+/, "")
stripLeadingSeparators(p) ==
    IF Len(p) > 0 /\ (Head(p) = SEP \/ Head(p) = BS)
    THEN stripLeadingSeparators(Tail(p)) ELSE p

normalizeWorkspaceRel(p) ==
    LET stripped == stripLeadingSeparators(p)
        rel == [i \in 1..Len(stripped) |-> IF stripped[i] = BS THEN SEP ELSE stripped[i]]
    IN  IF startsWith(toLowerCase(rel), WorkspacePrefix)
        THEN Slice(rel, Len(WorkspacePrefix), Len(rel)) ELSE rel

\* isForbiddenPath(absPath): the reason, or "none" for null
isForbiddenPath(absPath) ==
    LET rel == pathRelative(WORKSPACE, absPath)
        parts == split(rel, <<SEP>>)
        has(name) == \E i \in 1..Len(parts) : parts[i] = name
        base == pathBasename(absPath)
    IN  IF startsWith(rel, <<".", ".">>) THEN "Path escapes workspace"
        ELSE IF has(NodeModules)
             THEN "Operation not allowed in node_modules"
        ELSE IF has(DotGit) THEN "Operation not allowed in .git"
        ELSE IF startsWith(base, <<".", "e", "n", "v">>)
             THEN "Operation not allowed on .env files"
        ELSE "none"

(***************************************************************************)
(* node:fs over a file system f: a function from the absolute paths of     *)
(* the regular files to their content.  A directory exists exactly when a  *)
(* file lies below it.                                                     *)
(***************************************************************************)
isFile(f, p) == p \in DOMAIN f

isDirectory(f, p) == \E q \in DOMAIN f : startsWith(q, p \o <<SEP>>)

existsSync(f, p) == isFile(f, p) \/ isDirectory(f, p)

\* the proper ancestors of p, the root directory "/" left out
ancestors(p) == {SubSeq(p, 1, i - 1) : i \in sepPositions(p) \ {1}}

\* f with file p holding data
putFile(f, p, data) == [q \in DOMAIN f \cup {p} |-> IF q = p THEN data ELSE f[q]]

removeFile(f, p) == [q \in DOMAIN f \ {p} |-> f[q]]

\* fs.readFileSync(p): the error it throws ("none": it returns f[p])
readError(f, p) ==
    IF isFile(f, p) THEN "none" ELSE IF isDirectory(f, p) THEN "EISDIR" ELSE "ENOENT"

\* fs.writeFileSync(p, data): the error it throws (every caller writes beside
\* an existing file or after mkdirSync, so the parent directory is there)
writeError(f, p) ==
    IF isDirectory(f, p) THEN "EISDIR"
    ELSE IF \E a \in ancestors(p) : isFile(f, a) THEN "ENOTDIR"
    ELSE "none"

\* fs.mkdirSync(dir, {recursive: true}): the error it throws
mkdirError(f, dir) ==
    IF isFile(f, dir) THEN "EEXIST"
    ELSE IF \E a \in ancestors(dir) : isFile(f, a) THEN "ENOTDIR"
    ELSE "none"

\* fs.copyFileSync(src, dst): the file system after it, f itself when it throws
copyFileSync(f, src, dst) ==
    IF isFile(f, src) /\ writeError(f, dst) = "none" THEN putFile(f, dst, f[src]) ELSE f

\* fs.renameSync(from, to): the error it throws
renameError(f, from, to) ==
    IF ~existsSync(f, from) THEN "ENOENT"
    ELSE IF \E a \in ancestors(to) : isFile(f, a) THEN "ENOTDIR"
    ELSE IF isFile(f, from) /\ isDirectory(f, to) THEN "EISDIR"
    ELSE IF isDirectory(f, from) /\ isFile(f, to) THEN "ENOTDIR"
    ELSE IF isDirectory(f, from) /\ startsWith(to, from \o <<SEP>>) THEN "EINVAL"
    ELSE IF isDirectory(f, from) /\ isDirectory(f, to) /\ to # from THEN "ENOTEMPTY"
    ELSE "none"

\* where renameSync(from, to) puts the file q
movedPath(q, from, to) ==
    IF q = from THEN to
    ELSE IF startsWith(q, from \o <<SEP>>) THEN to \o SubSeq(q, Len(from) + 1, Len(q))
    ELSE q

\* fs.renameSync(from, to) when it does not throw: a file replaces the file at
\* `to`, a directory moves with everything below it
renameSync(f, from, to) ==
    LET moving == {q \in DOMAIN f : q = from \/ startsWith(q, from \o <<SEP>>)}
        kept == (DOMAIN f \ moving) \ {to}
    IN  IF from = to THEN f
        ELSE [q \in kept \cup {movedPath(m, from, to) : m \in moving} |->
                 IF q \in kept THEN f[q]
                 ELSE f[CHOOSE m \in moving : movedPath(m, from, to) = q]]

(***************************************************************************)
(* JavaScript numbers as the handlers meet them: an integer or NaN.        *)
(***************************************************************************)
NaN == [nan |-> TRUE, v |-> 0]

Num(n) == [nan |-> FALSE, v |-> n]

\* Math.max(a, b)
mathMax(a, b) == IF a.nan \/ b.nan THEN NaN ELSE Num(Max(a.v, b.v))

(***************************************************************************)
(* The result of a tool call, with the arguments it was called with:       *)
(*   path, path2, search, text, first, last, confirm   the arguments       *)
(*   backupWorks   whether the best-effort backup of this call can succeed *)
(*   status, note, file, start, end   the fields of the JSON result        *)
(*   body          the text lov-view returns                               *)
(*   hits          the result list of lov-search-files                     *)
(*   touched       the absolute paths handed to node:fs                    *)
(* lov-view and lov-search-files return no status field: status is "ok"    *)
(* for their plain result and "error" for their {error: ...} object.       *)
(***************************************************************************)
NoRes ==
    [op |-> "none", path |-> <<>>, path2 |-> <<>>, search |-> <<>>, text |-> <<>>,
     first |-> Num(0), last |-> Num(0), confirm |-> FALSE, backupWorks |-> TRUE,
     status |-> "none", note |-> "none", file |-> <<>>, start |-> 0, end |-> 0,
     body |-> <<>>, hits |-> {}, touched |-> {}, size |-> 0]

Failed(base, note, touched) ==
    [base EXCEPT !.status = "error", !.note = note, !.touched = touched]

(***************************************************************************)
(* lov-line-replace                                                        *)
(***************************************************************************)
ellipsisToken == <<LF, ".", ".", ".", LF>>

threeDots == <<".", ".", ".">>

\* lines.slice(start - 1, Math.min(end, lines.length)).join("\n")
targetBlockOf(lines, start, end) ==
    join(SubSeq(lines, start, Min(end, Len(lines))), <<LF>>)

\* a validation that checks the text before the ellipsis only
searchMismatchPrefixOnly(targetBlock, searchNorm) ==
    IF includes(searchNorm, threeDots)
    THEN LET idx == indexOf(searchNorm, ellipsisToken)
         IN  IF idx = -1 THEN "Ellipsis must be on its own line"
             ELSE IF ~startsWith(targetBlock, Slice(searchNorm, 0, idx))
                  THEN "Prefix/suffix do not match target lines"
             ELSE "none"
    ELSE IF targetBlock # searchNorm THEN "Search content mismatch in specified range"
    ELSE "none"

\* the validation of the search template against the addressed block: the note
\* of the error result, "none" when the template is accepted
searchMismatch(targetBlock, searchNorm) ==
    IF includes(searchNorm, threeDots)
    THEN LET idx == indexOf(searchNorm, ellipsisToken)
         IN  IF idx = -1
             THEN LET parts == split(searchNorm, ellipsisToken)
                  IN  IF Len(parts) # 2 THEN "Ellipsis must be on its own line"
                      ELSE IF ~startsWith(targetBlock, parts[1])
                              \/ ~endsWith(targetBlock, parts[2])
                           THEN "Prefix/suffix do not match target lines"
                      ELSE "none"
             ELSE LET prefix == Slice(searchNorm, 0, idx)
                      suffix == Slice(searchNorm, idx + Len(ellipsisToken),
                                      Len(searchNorm))
                  IN  IF ~startsWith(targetBlock, prefix) \/ ~endsWith(targetBlock, suffix)
                      THEN "Prefix/suffix do not match target lines"
                      ELSE "none"
    ELSE IF targetBlock # searchNorm THEN "Search content mismatch in specified range"
    ELSE "none"

\* replace.replace(/\r\n/g, "\n").split("\n")
replaceLinesOf(replace) == split(normalizeCRLF(replace), <<LF>>)

\* a splice that keeps the last replaced line
spliceLinesKeepsLast(lines, start, end, replaceLines) ==
    SubSeq(lines, 1, start - 1) \o replaceLines \o SubSeq(lines, end, Len(lines))

\* a splice that keeps the first replaced line
spliceLinesKeepsFirst(lines, start, end, replaceLines) ==
    SubSeq(lines, 1, start) \o replaceLines \o SubSeq(lines, end + 1, Len(lines))

\* [...lines.slice(0, start - 1), ...replaceLines, ...lines.slice(end)]
spliceLines(lines, start, end, replaceLines) ==
    SubSeq(lines, 1, start - 1) \o replaceLines \o SubSeq(lines, end + 1, Len(lines))

\* a backup that is written once and then kept
backupCopyKeepsFirst(f, abs, backupWorks) ==
    IF backupWorks /\ ~isFile(f, abs \o BackupSuffix)
    THEN copyFileSync(f, abs, abs \o BackupSuffix) ELSE f

\* try { fs.copyFileSync(abs, abs + ".bak"); } catch {}
backupCopy(f, abs, backupWorks) ==
    IF backupWorks THEN copyFileSync(f, abs, abs \o BackupSuffix) ELSE f

\* the JSON result of the handler: the returns of the handler in their order
lineReplaceResult(f, file_path, search, first_replaced_line, last_replaced_line, replace, backupWorks) ==
    LET rel == normalizeWorkspaceRel(file_path)
        base == [NoRes EXCEPT !.op = "lov-line-replace", !.path = file_path,
                              !.search = search, !.text = replace,
                              !.first = first_replaced_line,
                              !.last = last_replaced_line,
                              !.backupWorks = backupWorks, !.file = rel]
        abs == safeJoin(WORKSPACE, rel)
        lines == splitLines(f[abs])
        start == mathMax(Num(1), first_replaced_line)
        end == mathMax(start, last_replaced_line)
        targetBlock == targetBlockOf(lines, start.v, end.v)
        searchNorm == normalizeCRLF(search)
        newEnd == (start.v - 1) + Len(replaceLinesOf(replace))
    IN  IF safeJoinError(WORKSPACE, rel) # "none"
        THEN Failed(base, safeJoinError(WORKSPACE, rel), {})
        ELSE IF isForbiddenPath(abs) # "none" THEN Failed(base, isForbiddenPath(abs), {})
        ELSE IF ~existsSync(f, abs) THEN Failed(base, "File not found", {abs})
        ELSE IF readError(f, abs) # "none" THEN Failed(base, readError(f, abs), {abs})
        ELSE IF start.nan \/ end.nan THEN Failed(base, "Invalid line numbers", {abs})
        ELSE IF start.v > Len(lines) THEN Failed(base, "Start line beyond EOF", {abs})
        ELSE IF searchMismatch(targetBlock, searchNorm) # "none"
        THEN Failed(base, searchMismatch(targetBlock, searchNorm), {abs})
        ELSE [base EXCEPT !.status = "ok", !.start = start.v, !.end = newEnd,
                          !.touched = {abs, abs \o BackupSuffix}]

\* the files after the backup and the write that follow a passed validation
lineReplaceFiles(f, file_path, first_replaced_line, last_replaced_line, replace, backupWorks) ==
    LET abs == safeJoin(WORKSPACE, normalizeWorkspaceRel(file_path))
        lines == splitLines(f[abs])
        start == mathMax(Num(1), first_replaced_line)
        end == mathMax(start, last_replaced_line)
        newLines == spliceLines(lines, start.v, end.v, replaceLinesOf(replace))
    IN  putFile(backupCopy(f, abs, backupWorks), abs, join(newLines, <<LF>>))

\* a handler that writes the backup before it validates
lovLineReplaceBackupFirst(f, file_path, search, first_replaced_line, last_replaced_line, replace, backupWorks) ==
    LET r == lineReplaceResult(f, file_path, search, first_replaced_line,
                               last_replaced_line, replace, backupWorks)
        abs == safeJoin(WORKSPACE, normalizeWorkspaceRel(file_path))
    IN  [fs |-> IF r.status = "ok"
                THEN lineReplaceFiles(f, file_path, first_replaced_line,
                                      last_replaced_line, replace, backupWorks)
                ELSE IF r.touched # {} /\ isFile(f, abs)
                     THEN backupCopy(f, abs, backupWorks) ELSE f,
         r |-> r]

\* the handler: the file system after the call and the result; every error
\* result is returned before the backup and the write
lovLineReplace(f, file_path, search, first_replaced_line, last_replaced_line, replace, backupWorks) ==
    LET r == lineReplaceResult(f, file_path, search, first_replaced_line,
                               last_replaced_line, replace, backupWorks)
    IN  [fs |-> IF r.status = "ok"
                THEN lineReplaceFiles(f, file_path, first_replaced_line,
                                      last_replaced_line, replace, backupWorks)
                ELSE f,
         r |-> r]

(***************************************************************************)
(* lov-write                                                               *)
(*                                                                         *)
(* The two ceilings of the handler, 200 * 1024 bytes of content and 400    *)
(* changed lines, are scaled down to WriteByteLimit and ChangeLimit so     *)
(* that files on both sides of each ceiling are within the model's reach.  *)
(***************************************************************************)
WriteByteLimit == 12

ChangeLimit == 2

\* a byte count that never reaches the ceiling
byteLengthZero(content) == 0

\* Buffer.byteLength(content, "utf-8"): every character of the model is ASCII
byteLength(content) == Len(content)

\* prevLines[i] ?? "" (i is 1-based here)
lineOrEmpty(lines, i) == IF i <= Len(lines) THEN lines[i] ELSE <<>>

RECURSIVE changedFrom(_, _, _, _)
\* the loop of the naive changed-lines count, from position i with `changed`
\* found so far; it breaks as soon as changed exceeds the ceiling
changedFrom(prevLines, newLines, i, changed) ==
    IF i > Max(Len(prevLines), Len(newLines)) THEN changed
    ELSE LET c == IF lineOrEmpty(prevLines, i) # lineOrEmpty(newLines, i)
                  THEN changed + 1 ELSE changed
         IN  IF c > ChangeLimit THEN c ELSE changedFrom(prevLines, newLines, i + 1, c)

changedLines(prevLines, newLines) == changedFrom(prevLines, newLines, 1, 0)

lovWrite(f, file_path, content, backupWorks) ==
    LET rel == normalizeWorkspaceRel(file_path)
        base == [NoRes EXCEPT !.op = "lov-write", !.path = file_path, !.text = content,
                              !.backupWorks = backupWorks, !.file = rel]
        abs == safeJoin(WORKSPACE, rel)
        prevLines == splitLines(f[abs])
        newLines == split(normalizeCRLF(content), <<LF>>)
        dir == pathDirname(abs)
    IN  IF byteLength(content) > WriteByteLimit
        THEN [fs |-> f, r |-> Failed(base, "Content exceeds 200KB; use lov-line-replace", {})]
        ELSE IF safeJoinError(WORKSPACE, rel) # "none"
        THEN [fs |-> f, r |-> Failed(base, safeJoinError(WORKSPACE, rel), {})]
        ELSE IF isForbiddenPath(abs) # "none"
        THEN [fs |-> f, r |-> Failed(base, isForbiddenPath(abs), {})]
        ELSE IF existsSync(f, abs)
        THEN IF readError(f, abs) # "none"
             THEN [fs |-> f, r |-> Failed(base, readError(f, abs), {abs})]
             ELSE IF changedLines(prevLines, newLines) > ChangeLimit
             THEN [fs |-> f,
                   r |-> Failed(base, "Change exceeds 400 lines; use lov-line-replace", {abs})]
             ELSE [fs |-> putFile(backupCopy(f, abs, backupWorks), abs,
                                  join(newLines, <<LF>>)),
                   r |-> [base EXCEPT !.status = "ok",
                                      !.note = "Overwritten with small changes",
                                      !.touched = {abs, abs \o BackupSuffix}]]
        ELSE IF mkdirError(f, dir) # "none"
             THEN [fs |-> f, r |-> Failed(base, mkdirError(f, dir), {abs, dir})]
             ELSE [fs |-> putFile(f, abs, normalizeCRLF(content)),
                   r |-> [base EXCEPT !.status = "ok", !.note = "File created",
                                      !.touched = {abs, dir}]]

(***************************************************************************)
(* lov-rename                                                              *)
(***************************************************************************)
\* try { fs.renameSync(absTo, absTo + ".bak"); } catch {}
backupRename(f, absTo, backupWorks) ==
    IF backupWorks /\ renameError(f, absTo, absTo \o BackupSuffix) = "none"
    THEN renameSync(f, absTo, absTo \o BackupSuffix) ELSE f

\* a rename that never finds the destination taken
targetConflictNever(f, absTo, confirm) == FALSE

\* if (fs.existsSync(absTo)) { if (!confirm) return ... }
targetConflict(f, absTo, confirm) == existsSync(f, absTo) /\ ~confirm

lovRename(f, original_file_path, new_file_path, confirm, backupWorks) ==
    LET relFrom == normalizeWorkspaceRel(original_file_path)
        relTo == normalizeWorkspaceRel(new_file_path)
        base == [NoRes EXCEPT !.op = "lov-rename", !.path = original_file_path,
                              !.path2 = new_file_path, !.confirm = confirm,
                              !.backupWorks = backupWorks]
        \* the catch block echoes new_file_path when it is a non-empty string
        relFallback == IF Len(new_file_path) > 0 THEN relTo ELSE relFrom
        thrown(note, touched) ==
            Failed([base EXCEPT !.file = relFallback], note, touched)
        absFrom == safeJoin(WORKSPACE, relFrom)
        absTo == safeJoin(WORKSPACE, relTo)
        relFromDir == pathDirname(pathRelative(WORKSPACE, absFrom))
        relToDir == pathDirname(pathRelative(WORKSPACE, absTo))
        absBak == absTo \o BackupSuffix
        f1 == IF existsSync(f, absTo) THEN backupRename(f, absTo, backupWorks) ELSE f
        t1 == IF existsSync(f, absTo) THEN {absFrom, absTo, absBak} ELSE {absFrom, absTo}
    IN  IF safeJoinError(WORKSPACE, relFrom) # "none"
        THEN [fs |-> f, r |-> thrown(safeJoinError(WORKSPACE, relFrom), {})]
        ELSE IF safeJoinError(WORKSPACE, relTo) # "none"
        THEN [fs |-> f, r |-> thrown(safeJoinError(WORKSPACE, relTo), {})]
        ELSE IF isForbiddenPath(absFrom) # "none"
        THEN [fs |-> f, r |-> Failed([base EXCEPT !.file = relFrom],
                                     isForbiddenPath(absFrom), {})]
        ELSE IF isForbiddenPath(absTo) # "none"
        THEN [fs |-> f, r |-> Failed([base EXCEPT !.file = relTo],
                                     isForbiddenPath(absTo), {})]
        ELSE IF ~existsSync(f, absFrom)
        THEN [fs |-> f, r |-> Failed([base EXCEPT !.file = relFrom],
                                     "Source not found", {absFrom})]
        ELSE IF relFromDir # relToDir
        THEN [fs |-> f, r |-> Failed([base EXCEPT !.file = relFrom],
                                     "Cross-directory renames are blocked", {absFrom})]
        ELSE IF targetConflict(f, absTo, confirm)
        THEN [fs |-> f,
              r |-> Failed([base EXCEPT !.file = relTo],
                           "Target exists; pass confirm:true to overwrite (backup will be created)", {absFrom, absTo})]
        ELSE IF renameError(f1, absFrom, absTo) # "none"
        THEN [fs |-> f1, r |-> thrown(renameError(f1, absFrom, absTo), t1)]
        ELSE [fs |-> renameSync(f1, absFrom, absTo),
              r |-> [base EXCEPT !.status = "ok", !.file = relTo,
                                 !.note = "Renamed (target backup created if existed)",
                                 !.touched = t1]]

(***************************************************************************)
(* lov-delete                                                              *)
(***************************************************************************)
ENABLE_DELETE == FALSE

\* fs.statSync(abs).size: the bytes of a file; what a directory reports
\* depends on the file system and is left at 0
statSize(f, p) == IF isFile(f, p) THEN Len(f[p]) ELSE 0

\* a delete that removes the file once confirmed
lovDeleteRemoves(f, file_path, confirm) ==
    LET abs == pathJoin(WORKSPACE, normalizeWorkspaceRel(file_path))
    IN  [fs |-> IF confirm /\ isFile(f, abs) THEN removeFile(f, abs) ELSE f,
         r |-> [NoRes EXCEPT !.op = "lov-delete", !.path = file_path,
                             !.confirm = confirm, !.status = "ok"]]

lovDelete(f, file_path, confirm) ==
    LET rel == normalizeWorkspaceRel(file_path)
        base == [NoRes EXCEPT !.op = "lov-delete", !.path = file_path,
                              !.confirm = confirm]
        abs == safeJoin(WORKSPACE, rel)
        named == [base EXCEPT !.file = rel]
    IN  IF ~ENABLE_DELETE
        THEN [fs |-> f, r |-> [base EXCEPT !.status = "not_enabled"]]
        ELSE IF safeJoinError(WORKSPACE, rel) # "none"
        THEN [fs |-> f, r |-> Failed(named, safeJoinError(WORKSPACE, rel), {})]
        ELSE IF isForbiddenPath(abs) # "none"
        THEN [fs |-> f, r |-> Failed(named, isForbiddenPath(abs), {})]
        ELSE IF ~existsSync(f, abs)
        THEN [fs |-> f, r |-> Failed(named, "File not found", {abs})]
        ELSE IF ~confirm
        THEN [fs |-> f, r |-> [named EXCEPT !.status = "confirm_required",
                                            !.note = "About to delete",
                                            !.size = statSize(f, abs),
                                            !.touched = {abs}]]
        ELSE [fs |-> f, r |-> [named EXCEPT !.status = "confirm",
                                            !.note = "Deletion requested",
                                            !.size = statSize(f, abs),
                                            !.touched = {abs}]]

(***************************************************************************)
(* parseLineRanges and lov-view                                            *)
(***************************************************************************)
Digits == <<"0", "1", "2", "3", "4", "5", "6", "7", "8", "9">>

isDigit(c) == \E d \in 1..10 : Digits[d] = c

digitValue(c) == (CHOOSE d \in 1..10 : Digits[d] = c) - 1

isSpace(c) == c \in {" ", LF, CR}

RECURSIVE trimStart(_)
trimStart(s) == IF Len(s) > 0 /\ isSpace(Head(s)) THEN trimStart(Tail(s)) ELSE s

RECURSIVE trimEnd(_)
trimEnd(s) ==
    IF Len(s) > 0 /\ isSpace(s[Len(s)]) THEN trimEnd(SubSeq(s, 1, Len(s) - 1)) ELSE s

\* String.prototype.trim
trim(s) == trimEnd(trimStart(s))

RECURSIVE digitsValue(_, _, _)
\* the value of the digits of s from offset i on, up to the first non-digit
digitsValue(s, i, acc) ==
    IF i > Len(s) \/ ~isDigit(s[i]) THEN acc
    ELSE digitsValue(s, i + 1, 10 * acc + digitValue(s[i]))

\* parseInt(str, 10): leading white space, an optional sign, then the digits
parseInt(str) ==
    LET t == trimStart(str)
        signed == Len(t) > 0 /\ t[1] \in {"+", "-"}
        u == IF signed THEN Tail(t) ELSE t
        n == digitsValue(u, 1, 0)
    IN  IF Len(u) = 0 \/ ~isDigit(u[1]) THEN NaN
        ELSE IF signed /\ t[1] = "-" THEN Num(0 - n) ELSE Num(n)

\* a range whose end is taken as written
parseRangeUnclamped(range) ==
    LET raw == split(range, <<"-">>)
    IN  <<mathMax(Num(1), parseInt(trim(raw[1]))),
          IF Len(raw) >= 2 THEN parseInt(trim(raw[2])) ELSE NaN>>

\* one range of the expression: [start, end], or NaN in it when it throws
parseRange(range) ==
    LET raw == split(range, <<"-">>)
        startStr == trim(raw[1])
        start == mathMax(Num(1), parseInt(startStr))
        \* a missing endStr is undefined, which parseInt turns into NaN
        end == IF Len(raw) >= 2 THEN mathMax(start, parseInt(trim(raw[2]))) ELSE NaN
    IN  <<start, end>>

\* input.split(",").map(trim).filter(Boolean)
rangeTokens(input) ==
    LET toks == split(input, <<",">>)
    IN  SelectSeq([i \in 1..Len(toks) |-> trim(toks[i])], LAMBDA t : Len(t) > 0)

\* parseLineRanges(input): the list of [start, end], throws when a bound is NaN
parseLineRanges(input) ==
    [i \in 1..Len(rangeTokens(input)) |-> parseRange(rangeTokens(input)[i])]

parseLineRangesThrows(input) ==
    \E i \in 1..Len(parseLineRanges(input)) :
        parseLineRanges(input)[i][1].nan \/ parseLineRanges(input)[i][2].nan

\* the ceilings of lov-view: lines shown by default, characters returned
ViewDefaultLines == 500

ViewMaxChars == 20000

\* the text lov-view returns for a file content and a lines expression
viewOutput(raw, lines) ==
    LET allLines == splitLines(raw)
        ranges == parseLineRanges(lines)
        chunks == [i \in 1..Len(ranges) |->
                      join(SubSeq(allLines, ranges[i][1].v,
                                  Min(ranges[i][2].v, Len(allLines))), <<LF>>)]
        output == IF Len(trim(lines)) > 0 THEN join(chunks, <<LF>>)
                  ELSE join(SubSeq(allLines, 1, Min(ViewDefaultLines, Len(allLines))),
                            <<LF>>)
    IN  IF Len(output) > ViewMaxChars THEN SubSeq(output, 1, ViewMaxChars) ELSE output

\* the handler (the lines argument is <<>> when the caller leaves it out)
lovView(f, file_path, lines) ==
    LET rel == normalizeWorkspaceRel(file_path)
        base == [NoRes EXCEPT !.op = "lov-view", !.path = file_path, !.text = lines]
        abs == safeJoin(WORKSPACE, rel)
    IN  IF safeJoinError(WORKSPACE, rel) # "none"
        THEN [fs |-> f, r |-> Failed(base, safeJoinError(WORKSPACE, rel), {})]
        ELSE IF ~existsSync(f, abs)
        THEN [fs |-> f, r |-> Failed([base EXCEPT !.file = rel], "File not found", {abs})]
        ELSE IF readError(f, abs) # "none"
        THEN [fs |-> f, r |-> Failed(base, readError(f, abs), {abs})]
        ELSE IF Len(trim(lines)) > 0 /\ parseLineRangesThrows(lines)
        THEN [fs |-> f, r |-> Failed(base, "Invalid lines range format", {abs})]
        ELSE [fs |-> f, r |-> [base EXCEPT !.status = "ok", !.touched = {abs},
                                           !.body = viewOutput(f[abs], lines)]]

(***************************************************************************)
(* Regular expressions, as far as globToRegExp and the model's queries     *)
(* build them: a pattern is a sequence of items, each an atom (a literal   *)
(* character, ".", a character class or a group) that a "*" may follow.    *)
(***************************************************************************)
\* s.replace(/from/g, to) for a literal `from`
replaceAll(s, from, to) == join(split(s, from), to)

RECURSIVE closingBracket(_, _)
\* the offset of the "]" that ends the class opened before offset i
closingBracket(src, i) ==
    IF i > Len(src) THEN 0
    ELSE IF src[i] = BS THEN closingBracket(src, i + 2)
    ELSE IF src[i] = "]" THEN i
    ELSE closingBracket(src, i + 1)

RECURSIVE closingParen(_, _, _)
\* the offset of the ")" that ends the group opened before offset i
closingParen(src, i, depth) ==
    IF i > Len(src) THEN 0
    ELSE IF src[i] = BS THEN closingParen(src, i + 2, depth)
    ELSE IF src[i] = "(" THEN closingParen(src, i + 1, depth + 1)
    ELSE IF src[i] = ")" THEN IF depth = 0 THEN i ELSE closingParen(src, i + 1, depth - 1)
    ELSE closingParen(src, i + 1, depth)

RECURSIVE parseRegExp(_)
\* the items of a pattern source
parseRegExp(src) ==
    IF Len(src) = 0 THEN <<>>
    ELSE LET c == src[1]
             close == IF c = "[" THEN closingBracket(src, 2)
                      ELSE IF c = "(" THEN closingParen(src, 2, 0)
                      ELSE IF c = BS THEN 2 ELSE 1
             inner == SubSeq(src, 2, close - 1)
             atom == IF c = "[" THEN
                         IF Len(inner) > 0 /\ inner[1] = "^"
                         THEN [kind |-> "notin", chars |-> {inner[k] : k \in 2..Len(inner)},
                               items |-> <<>>]
                         ELSE [kind |-> "in", chars |-> {inner[k] : k \in 1..Len(inner)},
                               items |-> <<>>]
                     ELSE IF c = "(" THEN
                         [kind |-> "group", chars |-> {},
                          items |-> parseRegExp(IF startsWith(inner, <<"?", ":">>)
                                                THEN SubSeq(inner, 3, Len(inner))
                                                ELSE inner)]
                     ELSE IF c = BS THEN [kind |-> "in", chars |-> {src[2]}, items |-> <<>>]
                     ELSE IF c = "." THEN [kind |-> "notin", chars |-> {LF, CR},
                                           items |-> <<>>]
                     ELSE [kind |-> "in", chars |-> {c}, items |-> <<>>]
             starred == close < Len(src) /\ src[close + 1] = "*"
             next == IF starred THEN close + 2 ELSE close + 1
         IN  <<[atom |-> atom, star |-> starred]>> \o parseRegExp(SubSeq(src, next, Len(src)))

RECURSIVE matchItems(_, _, _, _)
RECURSIVE matchStar(_, _, _, _)
\* one atom, from each offset of from: the offsets just after a match
matchAtom(atom, s, from, ignoreCase) ==
    LET ch(p) == IF ignoreCase THEN toLowerChar(s[p]) ELSE s[p]
        set == IF ignoreCase THEN {toLowerChar(c) : c \in atom.chars} ELSE atom.chars
    IN  IF atom.kind = "group" THEN matchItems(atom.items, s, from, ignoreCase)
        ELSE IF atom.kind = "in"
             THEN {p + 1 : p \in {q \in from : q <= Len(s) /\ ch(q) \in set}}
        ELSE {p + 1 : p \in {q \in from : q <= Len(s) /\ ch(q) \notin set}}

\* atom*: zero or more matches of the atom
matchStar(atom, s, from, ignoreCase) ==
    LET more == matchAtom(atom, s, from, ignoreCase) \ from
    IN  IF more = {} THEN from ELSE matchStar(atom, s, from \cup more, ignoreCase)

\* the items in sequence
matchItems(items, s, from, ignoreCase) ==
    IF Len(items) = 0 \/ from = {} THEN from
    ELSE matchItems(Tail(items), s,
                    IF Head(items).star
                    THEN matchStar(Head(items).atom, s, from, ignoreCase)
                    ELSE matchAtom(Head(items).atom, s, from, ignoreCase),
                    ignoreCase)

\* new RegExp("^" + src + "$").test(s)
testAnchored(src, s) ==
    (Len(s) + 1) \in matchItems(parseRegExp(src), s, {1}, FALSE)

\* new RegExp(src, flags).test(s) with lastIndex 0: a match anywhere in s
testAnywhere(src, s, ignoreCase) ==
    matchItems(parseRegExp(src), s, 1..(Len(s) + 1), ignoreCase) # {}

(***************************************************************************)
(* globToRegExp, walkWorkspaceFiles and lov-search-files                   *)
(***************************************************************************)
RegExpSpecials == {".", "+", "^", "$", "{", "}", "(", ")", "|", "[", "]", BS}

RECURSIVE escapeRegExp(_)
\* glob.replace(/[.+^${}()|\[\]\\]/g, "\\$&")
escapeRegExp(glob) ==
    IF Len(glob) = 0 THEN <<>>
    ELSE (IF Head(glob) \in RegExpSpecials THEN <<BS, Head(glob)>> ELSE <<Head(glob)>>)
         \o escapeRegExp(Tail(glob))

\* the source of the pattern between "^" and "$": the four replacements run
\* one after the other, each over the whole output of the one before
globToRegExp(glob) ==
    LET escaped == escapeRegExp(glob)
        r1 == replaceAll(escaped, <<"*", "*", "/">>,
                         <<"(", "?", ":", ".", "*", "?", "/", ")", "?">>)
        r2 == replaceAll(r1, <<"*", "*">>, <<".", "*">>)
        r3 == replaceAll(r2, <<"*">>, <<"[", "^", "/", "]", "*">>)
    IN  replaceAll(r3, <<"?">>, <<".">>)

globTest(glob, rel) == testAnchored(globToRegExp(glob), rel)

\* the files the walk returns: every file below WORKSPACE that no skipped
\* entry (node_modules, .git) lies on the way to
walkWorkspaceFiles(f) ==
    {q \in DOMAIN f :
        /\ startsWith(q, WORKSPACE \o <<SEP>>)
        /\ LET parts == split(pathRelative(WORKSPACE, q), <<SEP>>)
           IN  \A i \in 1..Len(parts) : parts[i] # NodeModules /\ parts[i] # DotGit}

\* the directories the walk reads
walkedDirectories(f) ==
    {WORKSPACE} \cup UNION {ancestors(q) \ ancestors(WORKSPACE) : q \in walkWorkspaceFiles(f)}

\* the matches reported per file, the characters of a preview
MatchLimit == 3

PreviewChars == 200

RECURSIVE fileMatchesFrom(_, _, _, _, _)
\* the scan of the lines of a file from line i on, `found` matches so far
fileMatchesFrom(lines, i, found, query, ignoreCase) ==
    IF i > Len(lines) \/ Len(found) >= MatchLimit THEN found
    ELSE fileMatchesFrom(lines, i + 1,
             IF testAnywhere(query, lines[i], ignoreCase)
             THEN Append(found, [line |-> i,
                                 preview |-> SubSeq(lines[i], 1,
                                                    Min(PreviewChars, Len(lines[i])))])
             ELSE found,
             query, ignoreCase)

\* the files the search reads: those the include pattern accepts and the
\* exclude pattern (<<>> when left out) does not
searchedFiles(f, include_pattern, exclude_pattern) ==
    {q \in walkWorkspaceFiles(f) :
        LET rel == replaceAll(pathRelative(WORKSPACE, q), <<BS, BS>>, <<SEP>>)
        IN  /\ globTest(include_pattern, rel)
            /\ ~(Len(exclude_pattern) > 0 /\ globTest(exclude_pattern, rel))}

\* the handler; the result list is kept as a set (the walk fixes no order
\* across directories)
lovSearchFiles(f, query, include_pattern, exclude_pattern, case_sensitive) ==
    LET base == [NoRes EXCEPT !.op = "lov-search-files", !.search = query,
                              !.path = include_pattern, !.path2 = exclude_pattern,
                              !.confirm = case_sensitive]
        read == searchedFiles(f, include_pattern, exclude_pattern)
        matchesOf(q) == fileMatchesFrom(splitLines(f[q]), 1, <<>>, query, ~case_sensitive)
    IN  IF ~existsSync(f, WORKSPACE)
        THEN [fs |-> f, r |-> Failed(base, "ENOENT", {WORKSPACE})]
        ELSE [fs |-> f,
              r |-> [base EXCEPT
                        !.status = "ok",
                        !.touched = walkedDirectories(f) \cup read,
                        !.hits = {[file_path |-> pathRelative(WORKSPACE, q),
                                   matches |-> matchesOf(q)] :
                                     q \in {x \in read : Len(matchesOf(x)) > 0}}]]

(***************************************************************************)
(* The dispatch loop of app.post("/chat"): the tool calls of one message   *)
(* run one after the other, each handler to its end, one result per call.  *)
(***************************************************************************)
\* a tool call: the tool name and the arguments, named as in NoRes
Call(name, path, path2, search, text, first, last, confirm, backupWorks) ==
    [name |-> name, path |-> path, path2 |-> path2, search |-> search, text |-> text,
     first |-> first, last |-> last, confirm |-> confirm, backupWorks |-> backupWorks]

\* tools whose handler answers without touching a file (feature flags off,
\* stubs), and names no handler is registered for
DisabledTools == {"lov-download-to-repo", "lov-add-dependency", "stripe--enable_stripe"}

StubTools == {"lov-read-console-logs", "lov-read-network-requests"}

FileTools == {"lov-view", "lov-search-files", "lov-line-replace", "lov-write",
              "lov-rename", "lov-delete"}

\* the call being dispatched
call == Head(toolCalls)

\* the loop body after the handler returned h = [fs, r]
Push(h) ==
    /\ fs' = h.fs
    /\ toolMessages' = Append(toolMessages, h.r)
    /\ toolCalls' = Tail(toolCalls)
    /\ UNCHANGED <<orig, peerCalls, peerMessages>>

DispatchView ==
    /\ toolCalls # <<>> /\ call.name = "lov-view"
    /\ Push(lovView(fs, call.path, call.text))

DispatchSearchFiles ==
    /\ toolCalls # <<>> /\ call.name = "lov-search-files"
    /\ Push(lovSearchFiles(fs, call.search, call.path, call.path2, call.confirm))

DispatchLineReplace ==
    /\ toolCalls # <<>> /\ call.name = "lov-line-replace"
    /\ Push(lovLineReplace(fs, call.path, call.search, call.first, call.last,
                           call.text, call.backupWorks))

DispatchWrite ==
    /\ toolCalls # <<>> /\ call.name = "lov-write"
    /\ Push(lovWrite(fs, call.path, call.text, call.backupWorks))

DispatchRename ==
    /\ toolCalls # <<>> /\ call.name = "lov-rename"
    /\ Push(lovRename(fs, call.path, call.path2, call.confirm, call.backupWorks))

DispatchDelete ==
    /\ toolCalls # <<>> /\ call.name = "lov-delete"
    /\ Push(lovDelete(fs, call.path, call.confirm))

\* a disabled tool, a stub, or a name without handler
otherTool(f, name) ==
    [fs |-> f,
     r |-> [NoRes EXCEPT !.op = name,
                         !.status = IF name \in DisabledTools THEN "not_enabled"
                                    ELSE IF name \in StubTools THEN "ok"
                                    ELSE "error",
                         !.note = IF name \in DisabledTools \cup StubTools
                                  THEN "none" ELSE "Unknown tool"]]

DispatchOther ==
    /\ toolCalls # <<>> /\ call.name \notin FileTools
    /\ Push(otherTool(fs, call.name))

\* toolHandlers[name](args): what the handler registered for the call's name
\* leaves on the files f, or the answer of the loop for a name without handler
handled(f, c) ==
    CASE c.name = "lov-view" -> lovView(f, c.path, c.text)
      [] c.name = "lov-search-files" ->
            lovSearchFiles(f, c.search, c.path, c.path2, c.confirm)
      [] c.name = "lov-line-replace" ->
            lovLineReplace(f, c.path, c.search, c.first, c.last, c.text, c.backupWorks)
      [] c.name = "lov-write" -> lovWrite(f, c.path, c.text, c.backupWorks)
      [] c.name = "lov-rename" -> lovRename(f, c.path, c.path2, c.confirm, c.backupWorks)
      [] c.name = "lov-delete" -> lovDelete(f, c.path, c.confirm)
      [] OTHER -> otherTool(f, c.name)

Next ==
    \/ DispatchView
    \/ DispatchSearchFiles
    \/ DispatchLineReplace
    \/ DispatchWrite
    \/ DispatchRename
    \/ DispatchDelete
    \/ DispatchOther

\* the result of the call dispatched last
res == IF toolMessages = <<>> THEN NoRes ELSE toolMessages[Len(toolMessages)]

(***************************************************************************)
(* The first specification: messages of up to MaxOps tool calls, over a    *)
(* workspace with plain files, a backup, a directory, an env file and a    *)
(* .git entry, called with the paths a caller may send.                    *)
(***************************************************************************)
MaxOps == 2

SeqsUpTo(S, n) == UNION {[1..k -> S] : k \in 1..n}

\* caller paths
pA == <<"a">>
pC == <<"c">>
pNew == <<"n">>
pBak == <<"a", ".", "b", "a", "k">>
pEnv == <<".", "e", "n", "v">>
pUp == <<".", ".", "/", "a">>
pRoot == <<>>
pD == <<"d">>
pDB == <<"d", "/", "b">>
pDN == <<"d", "/", "n">>
pGitC == <<"d", "/", ".", "g", "i", "t", "/", "c">>
pWsA == <<"/", "W", "o", "r", "k", "s", "p", "a", "c", "e", "/", "a">>
pUnderA == <<"a", "/", "n">>
pCBakN == <<"c", ".", "b", "a", "k", "/", "n">>

abs(rel) == pathJoin(WORKSPACE, rel)

\* the workspace when the message arrives
Workspace0 ==
    LET files == {pA, pBak, pC, pEnv, pDB, pGitC}
        content(rel) ==
            CASE rel = pA -> <<"x", LF, "y">>
              [] rel = pBak -> <<"o">>
              [] rel = pC -> <<"y">>
              [] rel = pEnv -> <<"s">>
              [] rel = pDB -> <<"x">>
              [] rel = pGitC -> <<"g">>
    IN  [q \in {abs(rel) : rel \in files} |->
            content(CHOOSE rel \in files : abs(rel) = q)]

none == <<>>

View(path, lines) ==
    Call("lov-view", path, none, none, lines, Num(0), Num(0), FALSE, TRUE)

Search(query, include, exclude, caseSensitive) ==
    Call("lov-search-files", include, exclude, query, none, Num(0), Num(0),
         caseSensitive, TRUE)

LineReplace(path, search, first, last, replace, backupWorks) ==
    Call("lov-line-replace", path, none, search, replace, first, last, FALSE, backupWorks)

Write(path, content, backupWorks) ==
    Call("lov-write", path, none, none, content, Num(0), Num(0), FALSE, backupWorks)

Rename(from, to, confirm, backupWorks) ==
    Call("lov-rename", from, to, none, none, Num(0), Num(0), confirm, backupWorks)

Delete(path, confirm) ==
    Call("lov-delete", path, none, none, none, Num(0), Num(0), confirm, TRUE)

Other(name) == Call(name, none, none, none, none, Num(0), Num(0), FALSE, TRUE)

WorkspaceCalls ==
    {View(p, none) : p \in {pA, pEnv, pUp, pGitC, pRoot, pWsA, pNew}}
    \cup {View(pA, <<"2", "-", "2">>), View(pA, <<"2">>)}
    \cup {Search(<<"s">>, <<"*">>, none, TRUE),
          Search(<<"X">>, <<"d", "/", "*">>, none, FALSE),
          Search(<<"x">>, <<"*">>, <<"a">>, TRUE)}
    \cup {LineReplace(p, <<"x">>, Num(1), Num(1), <<"z">>, TRUE) :
             p \in {pA, pUp, pNew, pRoot, pWsA}}
    \cup {LineReplace(pA, <<"x">>, Num(1), Num(1), <<"z">>, FALSE),
          LineReplace(pA, <<"q">>, Num(1), Num(1), <<"z">>, TRUE),
          LineReplace(pEnv, <<"s">>, Num(1), Num(1), <<"z">>, TRUE),
          LineReplace(pGitC, <<"g">>, Num(1), Num(1), <<"z">>, TRUE)}
    \cup {Write(p, <<"z">>, TRUE) :
             p \in {pA, pEnv, pUp, pNew, pGitC, pRoot, pUnderA, pDN}}
    \cup {Write(pA, <<"z">>, FALSE)}
    \cup {Rename(pA, pNew, FALSE, TRUE), Rename(pA, pDB, TRUE, TRUE),
          Rename(pA, pBak, TRUE, TRUE), Rename(pA, pA, TRUE, TRUE),
          Rename(pA, pA, FALSE, TRUE), Rename(pBak, pA, TRUE, TRUE),
          Rename(pA, pRoot, TRUE, TRUE), Rename(pA, pRoot, FALSE, TRUE),
          Rename(pEnv, pNew, FALSE, TRUE), Rename(pA, pEnv, TRUE, TRUE),
          Rename(pUp, pNew, FALSE, TRUE), Rename(pNew, pA, TRUE, TRUE),
          Rename(pDB, pDN, FALSE, TRUE), Rename(pD, pNew, FALSE, TRUE),
          Rename(pA, pD, TRUE, TRUE), Rename(pC, pA, TRUE, TRUE),
          Rename(pC, pA, TRUE, FALSE), Rename(pC, pA, FALSE, TRUE)}
    \cup {Delete(pA, FALSE), Delete(pA, TRUE), Delete(pEnv, FALSE), Delete(pNew, FALSE)}
    \cup {Other("bogus"), Other("stripe--enable_stripe"), Other("lov-read-console-logs")}

Init ==
    /\ fs = Workspace0
    /\ orig = fs
    /\ toolCalls \in SeqsUpTo(WorkspaceCalls, MaxOps)
    /\ toolMessages = <<>>
    /\ peerCalls = <<>> /\ peerMessages = <<>>

Spec == Init /\ [][Next]_vars

(***************************************************************************)
(* The second specification: the edits of one file.  The file holds up to  *)
(* MaxFileLines lines, among them an ellipsis line and a line with three   *)
(* dots inside it; a message holds one line-replace or write call drawn    *)
(* from every template, range and replacement within the bounds, or two    *)
(* line-replace calls written against the same view of the file.           *)
(***************************************************************************)
MaxFileLines == 3

MaxSearchLines == 3

dots == <<".", ".", ".">>

FileLineValues == {<<"a">>, dots, dots \o <<"a">>}

joinLF(lines) == join(lines, <<LF>>)

\* the contents of the edited file: LF files, a CRLF file, a file ending in CR
EditFiles ==
    {joinLF(ls) : ls \in SeqsUpTo(FileLineValues, MaxFileLines)}
    \cup {<<"a", CR, LF, "a">>, <<"a", LF, "a", CR>>}

\* the search templates: LF templates, and templates with CR LF line ends
SearchTemplates ==
    {joinLF(ls) : ls \in SeqsUpTo(FileLineValues, MaxSearchLines)}
    \cup {<<"a", CR>>, <<"a", CR, LF, "a">>, <<"a", CR, LF>> \o dots \o <<CR, LF, "a">>}

ReplaceTexts == {<<"b">>, <<"b", LF, "b">>, <<"b", CR, LF, "b">>, <<"b", CR>>, <<>>}

LineNumberArgs == {Num(n) : n \in 0..(MaxFileLines + 1)} \cup {NaN}

\* every template against a few ranges
MatchCalls ==
    {LineReplace(pA, t, Num(r[1]), Num(r[2]), <<"b">>, TRUE) :
        t \in SearchTemplates,
        r \in {<<1, 1>>, <<1, 2>>, <<2, 3>>, <<1, MaxFileLines + 1>>}}

\* what a caller reads at the lines first..last of the file
viewedBlock(content, first, last) ==
    LET lines == splitLines(content)
        from == Max(1, first)
        to == Min(Max(from, last), Len(lines))
    IN  IF from > Len(lines) THEN <<"a">> ELSE joinLF(SubSeq(lines, from, to))

\* every range and replacement, with the text read at the range or another
SpliceCalls(content) ==
    {LineReplace(pA, <<"b">>, first, last, <<"b">>, TRUE) :
        first \in LineNumberArgs, last \in LineNumberArgs}
    \cup {LineReplace(pA, viewedBlock(content, first.v, last.v), first, last, replace, TRUE) :
        first \in LineNumberArgs, last \in LineNumberArgs, replace \in ReplaceTexts}

\* line-replace on paths the guard stops, on a missing file and on the root
PathCalls ==
    {LineReplace(p, <<"a">>, Num(1), Num(1), <<"b">>, TRUE) : p \in {pEnv, pUp, pNew, pRoot}}

\* whole-file writes: up to ChangeLimit + 2 lines, a CRLF text, a text over
\* the size ceiling, a new file
WriteContents ==
    {joinLF(ls) : ls \in SeqsUpTo({<<"a">>, <<>>}, ChangeLimit + 2)}
    \cup {<<"a", CR, LF, "a">>, [i \in 1..(WriteByteLimit + 1) |-> "a"]}

WriteCalls == {Write(pA, c, TRUE) : c \in WriteContents} \cup {Write(pNew, <<"a">>, TRUE)}

OtherCalls ==
    {View(pA, none), Search(<<"a">>, <<"*">>, none, TRUE), Rename(pA, pNew, FALSE, TRUE),
     Delete(pA, FALSE), Other("bogus")}

\* two edits of the same view: each addresses lines of the file as it is when
\* the message arrives, with the text of those lines; the ranges do not overlap
ViewEdits(content) ==
    LET n == Len(splitLines(content))
    IN  {LineReplace(pA, viewedBlock(content, i, j), Num(i), Num(j), replace, TRUE) :
            i \in 1..n, j \in 1..n, replace \in {<<"b">>, <<"b", LF, "b">>}}

ViewEditPairs(content) ==
    {<<e1, e2>> : e1 \in ViewEdits(content), e2 \in ViewEdits(content)}

EditBatches(content) ==
    {<<c>> : c \in MatchCalls \cup SpliceCalls(content) \cup PathCalls
                   \cup WriteCalls \cup OtherCalls}
    \cup {b \in ViewEditPairs(content) :
            /\ b[1].first.v <= b[1].last.v /\ b[2].first.v <= b[2].last.v
            /\ (b[1].last.v < b[2].first.v \/ b[2].last.v < b[1].first.v)}

EditWorkspace(content) ==
    [q \in {abs(pA), abs(pEnv)} |-> IF q = abs(pA) THEN content ELSE <<"s">>]

InitEdit ==
    \E content \in EditFiles :
        /\ fs = EditWorkspace(content)
        /\ orig = fs
        /\ toolCalls \in EditBatches(content)
        /\ toolMessages = <<>>
        /\ peerCalls = <<>> /\ peerMessages = <<>>

SpecEdit == InitEdit /\ [][Next]_vars

(***************************************************************************)
(* The third specification: whole-file writes, renames and deletes.  A     *)
(* message holds up to MaxOps calls over the workspace of the first        *)
(* specification: writes on both sides of the size ceiling, renames onto   *)
(* absent and present destinations with and without the confirm flag and   *)
(* with a backup rename that fails, and deletes in both phases.            *)
(***************************************************************************)
\* a content one byte over the size ceiling
oversized == [i \in 1..(WriteByteLimit + 1) |-> "z"]

MoveCalls ==
    {Write(p, oversized, TRUE) : p \in {pA, pNew, pEnv}}
    \cup {Write(pA, <<"z">>, TRUE), Write(pNew, <<"z">>, TRUE),
          Write(pCBakN, <<"z">>, TRUE)}
    \cup {Rename(pA, pNew, FALSE, TRUE), Rename(pA, pNew, TRUE, TRUE),
          Rename(pA, pC, TRUE, TRUE), Rename(pC, pA, TRUE, TRUE), Rename(pC, pA, TRUE, FALSE),
          Rename(pC, pA, FALSE, TRUE), Rename(pA, pBak, TRUE, TRUE),
          Rename(pBak, pA, TRUE, TRUE), Rename(pA, pA, TRUE, TRUE),
          Rename(pA, pA, FALSE, TRUE), Rename(pA, pRoot, TRUE, TRUE),
          Rename(pA, pDB, TRUE, TRUE), Rename(pA, pDB, FALSE, TRUE),
          Rename(pA, pDN, TRUE, TRUE), Rename(pDB, pNew, FALSE, TRUE),
          Rename(pDB, pDN, FALSE, TRUE), Rename(pA, pD, TRUE, TRUE),
          Rename(pNew, pA, TRUE, TRUE), Rename(pEnv, pNew, FALSE, TRUE),
          Rename(pUp, pNew, FALSE, TRUE)}
    \cup {Delete(pA, FALSE), Delete(pA, TRUE), Delete(pEnv, FALSE), Delete(pNew, FALSE),
          Delete(pUp, TRUE), Delete(pD, TRUE)}
    \cup {View(pA, none), Search(<<"x">>, <<"*">>, none, TRUE),
          LineReplace(pA, <<"x">>, Num(1), Num(1), <<"z">>, TRUE), Other("bogus")}

InitMove ==
    /\ fs = Workspace0
    /\ orig = fs
    /\ toolCalls \in SeqsUpTo(MoveCalls, MaxOps)
    /\ toolMessages = <<>>
    /\ peerCalls = <<>> /\ peerMessages = <<>>

SpecMove == InitMove /\ [][Next]_vars

(***************************************************************************)
(* The fourth specification: the arguments the handlers convert.  A        *)
(* message holds one call: a search with any include pattern of up to      *)
(* MaxGlobLen characters over the glob tokens and the characters of the    *)
(* file names, or one call of each other tool.                             *)
(***************************************************************************)
MaxGlobLen == 4

GlobChars == {"*", "?", "/", ".", "a", "s"}

\* the files of the workspace, each holding the line "x"
ArgsFiles ==
    {<<"a">>, <<"a", "a">>, <<"a", ".", "a">>, <<".", "a">>, <<"s", "/", "a">>,
     <<"s", "/", "a", ".", "a">>, <<"s", "/", "s", "/", "a">>}

\* a file below a directory that is itself named workspace, holding "w"
pWorkspaceA == WorkspacePrefix \o <<"a">>

pSA == <<"s", "/", "a">>

\* the file a holds three lines
ArgsWorkspace ==
    [q \in {abs(rel) : rel \in ArgsFiles \cup {pWorkspaceA}} |->
        IF q = abs(pWorkspaceA) THEN <<"w">>
        ELSE IF q = abs(pA) THEN <<"x", LF, "y", LF, "x">> ELSE <<"x">>]

\* workspace-relative paths: files, a missing file, the file below workspace/
RelPaths == {pA, pSA, pNew, pWorkspaceA}

\* every file tool on every relative path
RelPathCalls ==
    UNION {{View(p, none), LineReplace(p, <<"x">>, Num(1), Num(1), <<"z">>, TRUE),
            Write(p, <<"z">>, TRUE), Rename(p, <<"a", "a">>, TRUE, TRUE),
            Rename(<<"a", "a">>, p, TRUE, TRUE), Delete(p, FALSE)} : p \in RelPaths}

GlobCalls == {Search(<<"x">>, g, none, TRUE) : g \in SeqsUpTo(GlobChars, MaxGlobLen)}

MaxRangeLen == 4

MaxLineNumber == 11

RangeChars == {"0", "1", "2", "-", ",", " "}

RECURSIVE decimal(_)
\* String(n) for a natural number n
decimal(n) ==
    IF n < 10 THEN <<Digits[n + 1]>> ELSE decimal(n \div 10) \o <<Digits[(n % 10) + 1]>>

\* the expression "start-end"
rangeString(start, end) == decimal(start) \o <<"-">> \o decimal(end)

\* views of the file a: every normalized range up to MaxLineNumber, and
\* every lines expression of up to MaxRangeLen characters
RangeCalls ==
    {View(pA, rangeString(start, end)) :
        start \in 1..MaxLineNumber, end \in 1..MaxLineNumber}
    \cup {View(pA, e) : e \in SeqsUpTo(RangeChars, MaxRangeLen)}

ArgsCalls == GlobCalls \cup RelPathCalls \cup RangeCalls \cup {Other("bogus")}

InitArgs ==
    /\ fs = ArgsWorkspace
    /\ orig = fs
    /\ toolCalls \in {<<c>> : c \in ArgsCalls}
    /\ toolMessages = <<>>
    /\ peerCalls = <<>> /\ peerMessages = <<>>

SpecArgs == InitArgs /\ [][Next]_vars

(***************************************************************************)
(* The fifth specification: two /chat requests in flight.  The handler of  *)
(* /chat is an async function; a request gives way to the other one only   *)
(* at an await, and the loop over the tool calls has a single await, on    *)
(* the promise the handler returns.  The handlers of the file tools call   *)
(* the synchronous fs functions only and hold no await, so a handler runs  *)
(* from its first read to its last write in one step, and the steps of     *)
(* the two requests interleave call by call.  The first request edits,     *)
(* overwrites and renames the file a, or calls one of the other tools;     *)
(* the second edits another line of a and renames a over the file c.       *)
(***************************************************************************)
ChatCalls ==
    {LineReplace(pA, <<"x">>, Num(1), Num(1), <<"z">>, TRUE),
     Write(pA, <<"z">>, TRUE),
     Rename(pA, pNew, FALSE, TRUE)}

ChatSingleCalls ==
    {View(pA, none), Search(<<"x">>, <<"*">>, none, TRUE), Delete(pA, FALSE),
     Other("bogus")}

PeerCalls ==
    {LineReplace(pA, <<"y">>, Num(2), Num(2), <<"w">>, TRUE),
     Rename(pA, pC, TRUE, TRUE)}

\* the mutant of filesAtDispatch: the handler works on the files as they were
\* when the requests arrived
filesAtArrival(current, arrived) == arrived

\* the files a handler works on: those of the instant it is called, since it
\* reads them itself and nothing read before the await is carried over
filesAtDispatch(current, arrived) == current

\* the loop body of the second request
PushPeer(h) ==
    /\ fs' = h.fs
    /\ peerMessages' = Append(peerMessages, h.r)
    /\ peerCalls' = Tail(peerCalls)
    /\ UNCHANGED <<toolCalls, toolMessages, orig>>

DispatchPeer ==
    /\ peerCalls # <<>>
    /\ PushPeer(handled(filesAtDispatch(fs, orig), Head(peerCalls)))

NextChat == Next \/ DispatchPeer

InitChat ==
    /\ fs = Workspace0
    /\ orig = fs
    /\ toolCalls \in SeqsUpTo(ChatCalls, MaxOps) \cup {<<c>> : c \in ChatSingleCalls}
    /\ toolMessages = <<>>
    /\ peerCalls \in SeqsUpTo(PeerCalls, MaxOps)
    /\ peerMessages = <<>>

SpecChat == InitChat /\ [][NextChat]_vars

(***************************************************************************)
(* The claims.  A step of the specification dispatches `call` on the files *)
(* fs and leaves the files fs' and the result res'.                        *)
(***************************************************************************)
Dispatching(tool) == toolCalls # <<>> /\ call.name = tool

\* the call edits the file a, which exists, with integer line numbers
EditsFileA ==
    /\ call.path = pA /\ isFile(fs, abs(pA))
    /\ ~call.first.nan /\ ~call.last.nan

fileLines == splitLines(fs[abs(pA)])

\* a range whose first line is inside the file
RangeInFile ==
    /\ 1 <= call.first.v /\ call.first.v <= Len(fileLines)
    /\ call.first.v <= call.last.v

\* the text of the lines firstLine..lastLine of the file, as far as they exist
addressedText ==
    joinLF(SubSeq(fileLines, call.first.v, Min(call.last.v, Len(fileLines))))

\* the lines of a search template, and those that are an ellipsis
templateLines(search) == split(normalizeCRLF(search), <<LF>>)

ellipsisLines(search) ==
    {i \in 1..Len(templateLines(search)) : templateLines(search)[i] = dots}

\* the template has one ellipsis line, with lines before it and after it
OneInnerEllipsis(search) ==
    /\ Cardinality(ellipsisLines(search)) = 1
    /\ \A i \in ellipsisLines(search) : 1 < i /\ i < Len(templateLines(search))

textBefore(search) ==
    LET i == CHOOSE k \in ellipsisLines(search) : TRUE
    IN  joinLF(SubSeq(templateLines(search), 1, i - 1))

textAfter(search) ==
    LET i == CHOOSE k \in ellipsisLines(search) : TRUE
    IN  joinLF(SubSeq(templateLines(search), i + 1, Len(templateLines(search))))

\* the lines of the file as the message found it
origLines == splitLines(orig[abs(pA)])

\* C1: with a template that has no ellipsis line, line-replace returns ok
\* exactly when the addressed lines, joined with LF, equal the normalized
\* template; this includes templates with three dots inside a line.
C1_ExactTemplateIff ==
    [][(Dispatching("lov-line-replace") /\ EditsFileA /\ RangeInFile
        /\ ellipsisLines(call.search) = {})
       => (res'.status = "ok" <=> addressedText = normalizeCRLF(call.search))]_vars

\* C2: with a template that has exactly one ellipsis line, with text before
\* and after it, line-replace returns ok exactly when the addressed block
\* starts with the text before the ellipsis line and ends with the text
\* after it, whatever lies between, an empty middle included.
C2_EllipsisTemplateIff ==
    [][(Dispatching("lov-line-replace") /\ EditsFileA /\ RangeInFile
        /\ OneInnerEllipsis(call.search))
       => (res'.status = "ok" <=>
             /\ startsWith(addressedText, textBefore(call.search))
             /\ endsWith(addressedText, textAfter(call.search)))]_vars

\* an accepted one-ellipsis template over a block with nothing between the
\* text before and the text after
C2_Witness ==
    /\ Len(toolMessages) = 1 /\ toolCalls = <<>>
    /\ res.op = "lov-line-replace" /\ res.status = "ok"
    /\ OneInnerEllipsis(res.search)
    /\ res.first.v = 1 /\ res.last.v = 3 /\ Len(origLines) = 3
    /\ startsWith(joinLF(origLines), textBefore(res.search))
    /\ endsWith(joinLF(origLines), textAfter(res.search))
    /\ Len(joinLF(origLines))
         > Len(textBefore(res.search)) + 1 + Len(textAfter(res.search))

\* a dispatched line-replace written against the view the message started
\* from: lines of that view, with the text of those lines
FromOriginalView(m) ==
    /\ m.op = "lov-line-replace" /\ m.path = pA
    /\ ~m.first.nan /\ ~m.last.nan
    /\ 1 <= m.first.v /\ m.first.v <= m.last.v /\ m.last.v <= Len(origLines)
    /\ m.search = joinLF(SubSeq(origLines, m.first.v, m.last.v))

\* lines with the edit m applied to the lines it addresses, if it returned ok
appliedAt(lines, m) ==
    IF m.status = "ok"
    THEN SubSeq(lines, 1, m.first.v - 1) \o splitLines(m.text)
         \o SubSeq(lines, m.last.v + 1, Len(lines))
    ELSE lines

\* C3: two line-replace calls on non-overlapping ranges of one view, run one
\* after the other: every call that returns ok has replaced exactly the
\* lines it addressed in that view, and a call whose lines have moved
\* returns an error.
C3_NoSilentMisapplication ==
    (/\ Len(toolMessages) = 2 /\ isFile(orig, abs(pA)) /\ isFile(fs, abs(pA))
     /\ FromOriginalView(toolMessages[1]) /\ FromOriginalView(toolMessages[2])
     /\ \/ toolMessages[1].last.v < toolMessages[2].first.v
        \/ toolMessages[2].last.v < toolMessages[1].first.v)
    => LET m1 == toolMessages[1]
           m2 == toolMessages[2]
           hi == IF m1.first.v > m2.first.v THEN m1 ELSE m2
           lo == IF m1.first.v > m2.first.v THEN m2 ELSE m1
           moved == /\ m1.status = "ok" /\ m1.last.v < m2.first.v
                    /\ Len(splitLines(m1.text)) # m1.last.v - m1.first.v + 1
       IN  /\ splitLines(fs[abs(pA)]) = appliedAt(appliedAt(origLines, hi), lo)
           /\ moved => m2.status = "error"

\* C4: a line-replace that returns an error leaves every file as it was: the
\* target is unchanged and no backup is created or changed.
C4_ErrorLeavesFiles ==
    [][(Dispatching("lov-line-replace") /\ res'.status = "error") => fs' = fs]_vars

\* a template that does not match the addressed lines of an existing file
C4_Witness ==
    /\ res.op = "lov-line-replace" /\ res.status = "error"
    /\ res.note = "Search content mismatch in specified range"
    /\ isFile(fs, abs(pA)) /\ ~isFile(fs, abs(pBak))

\* the replacement lines of the call being dispatched
callReplaceLines == splitLines(call.text)

clampedStart == Max(1, call.first.v)

clampedEnd == Max(clampedStart, call.last.v)

endsWithCR(line) == Len(line) > 0 /\ line[Len(line)] = CR

fileLineCount(f) == Len(splitLines(f[abs(pA)]))

\* C6 as stated: an ok line-replace changes the line count of the file by
\* count(replacementLines) - (lastLine - firstLine + 1), for any firstLine
\* and lastLine the caller passed.
C6_LineCountAsCalled ==
    [][(Dispatching("lov-line-replace") /\ EditsFileA /\ res'.status = "ok")
       => fileLineCount(fs') - fileLineCount(fs)
            = Len(callReplaceLines) - (call.last.v - call.first.v + 1)]_vars

\* C6 amended: the line count changes by count(replacementLines) -
\* (end - start + 1), with start = max(1, firstLine) and
\* end = min(max(start, lastLine), line count before the call).
C6_LineCountClamped ==
    [][(Dispatching("lov-line-replace") /\ EditsFileA /\ res'.status = "ok")
       => fileLineCount(fs') - fileLineCount(fs)
            = Len(callReplaceLines)
              - (Min(clampedEnd, fileLineCount(fs)) - clampedStart + 1)]_vars

\* an accepted call whose lastLine lies beyond the end of the file, and one
\* whose firstLine is 0
C6_Witness ==
    /\ Len(toolMessages) = 1 /\ res.op = "lov-line-replace" /\ res.status = "ok"
    /\ res.last.v > Len(origLines)
    /\ Len(splitLines(fs[abs(pA)])) = res.first.v - 1 + Len(splitLines(res.text))

\* C7: a template in which the ellipsis line occurs more than once makes
\* line-replace return an error and leave the file unchanged.
C7_RepeatedEllipsisRejected ==
    [][(Dispatching("lov-line-replace") /\ EditsFileA
        /\ Cardinality(ellipsisLines(call.search)) > 1)
       => (res'.status = "error" /\ fs' = fs)]_vars

\* the absolute path p is the workspace root or lies below it
insideWorkspace(p) == p = WORKSPACE \/ startsWith(p, WORKSPACE \o <<SEP>>)

\* the caller path has a ".." segment
hasParentSegment(path) ==
    \E i \in 1..Len(split(path, <<SEP>>)) : split(path, <<SEP>>)[i] = <<".", ".">>

\* C8: every path an operation read, wrote, renamed or used as a backup
\* target lies inside the workspace root, and a caller path with a ".."
\* segment is rejected before any file access.
C8_PathsInsideWorkspace ==
    \A i \in 1..Len(toolMessages) :
        LET m == toolMessages[i]
        IN  /\ \A p \in m.touched : insideWorkspace(p)
            /\ (/\ m.op \in FileTools \ {"lov-search-files", "lov-delete"}
                /\ hasParentSegment(m.path) \/ hasParentSegment(m.path2))
               => (m.status = "error" /\ m.touched = {})

\* the caller path has a node_modules or .git component, or an env-file name
forbiddenCallerPath(path) ==
    LET segs == split(path, <<SEP>>)
    IN  \/ \E i \in 1..Len(segs) : segs[i] \in {NodeModules, DotGit}
        \/ startsWith(segs[Len(segs)], <<".", "e", "n", "v">>)

\* C9: a forbidden path is rejected by every operation that takes a file
\* path, and view and search never return the content of such a file.
C9_ForbiddenPathsRejected ==
    \A i \in 1..Len(toolMessages) :
        LET m == toolMessages[i]
        IN  /\ (/\ m.op \in FileTools \ {"lov-search-files"}
                /\ forbiddenCallerPath(m.path)
                   \/ (m.op = "lov-rename" /\ forbiddenCallerPath(m.path2)))
               => (m.status \in {"error", "not_enabled"} /\ m.body = <<>>)
            /\ m.op = "lov-search-files"
               => \A h \in m.hits : ~forbiddenCallerPath(h.file_path)

\* C10: a write to an existing file is refused, file and backup unchanged,
\* when the new content differs from the old at more than the ceiling of line
\* positions, a position present in only one of them counting as a
\* difference; otherwise the file is overwritten with the new content.
C10_ChangeCeiling ==
    [][(Dispatching("lov-write") /\ call.path = pA /\ isFile(fs, abs(pA))
        /\ Len(call.text) <= WriteByteLimit)
       => LET new == splitLines(call.text)
              differing == {i \in 1..Max(Len(fileLines), Len(new)) :
                               \/ i > Len(fileLines) \/ i > Len(new)
                               \/ fileLines[i] # new[i]}
          IN  IF Cardinality(differing) > ChangeLimit
              THEN res'.status = "error" /\ fs' = fs
              ELSE res'.status = "ok" /\ splitLines(fs'[abs(pA)]) = new]_vars

\* C11: a write whose content is larger than the size ceiling returns an
\* error, for an existing and for a new path, and leaves the file system as
\* it was: no file created, none modified, no backup written.
C11_OversizedWriteRefused ==
    [][(Dispatching("lov-write") /\ Len(call.text) > WriteByteLimit)
       => (res'.status = "error" /\ fs' = fs)]_vars

\* an oversized write to a path that does not exist
C11_Witness ==
    /\ res.op = "lov-write" /\ res.status = "error"
    /\ Len(res.text) > WriteByteLimit /\ res.path = pNew
    /\ res.note = "Content exceeds 200KB; use lov-line-replace"
    /\ ~existsSync(fs, abs(pNew)) /\ fs = orig

\* the absolute path a caller path addresses
addressed(path) == abs(normalizeWorkspaceRel(path))

\* C12: after a rename with confirm onto an existing destination file D
\* returns ok, the content D held before the call is in D.bak.
C12_DestinationBackedUp ==
    [][(/\ Dispatching("lov-rename") /\ call.confirm
        /\ isFile(fs, addressed(call.path2))
        /\ res'.status = "ok")
       => /\ isFile(fs', addressed(call.path2) \o BackupSuffix)
          /\ fs'[addressed(call.path2) \o BackupSuffix] = fs[addressed(call.path2)]]_vars

\* C13: a rename onto a destination that exists, called without confirm,
\* returns an error and changes nothing: source, destination and backups
\* keep their names and content.
C13_UnconfirmedOverwriteRefused ==
    [][(/\ Dispatching("lov-rename") /\ ~call.confirm
        /\ existsSync(fs, addressed(call.path2)))
       => (res'.status = "error" /\ fs' = fs)]_vars

\* c renamed onto the existing a without confirm
C13_Witness ==
    /\ Len(toolMessages) = 1 /\ res.op = "lov-rename" /\ ~res.confirm
    /\ res.path = pC /\ res.path2 = pA /\ res.status = "error"
    /\ res.note = "Target exists; pass confirm:true to overwrite (backup will be created)"
    /\ fs = orig /\ isFile(fs, abs(pC)) /\ isFile(fs, abs(pA))

\* the directory that holds the file or directory a caller path addresses
parentDirectory(path) == pathDirname(addressed(path))

\* C14: a rename whose source and destination have different parent
\* directories returns an error, whatever the confirm flag and whether or
\* not the destination exists, and moves or changes no file.
C14_CrossDirectoryRefused ==
    [][(/\ Dispatching("lov-rename")
        /\ parentDirectory(call.path) # parentDirectory(call.path2))
       => (res'.status = "error" /\ fs' = fs)]_vars

MutatingTools == {"lov-line-replace", "lov-write", "lov-rename", "lov-delete"}

\* C15: delete is two-phase: on an existing file that is not forbidden it
\* returns confirm_required with the size of the file when called without
\* confirm and an acknowledgement that deletion was requested when called
\* with confirm; and every status a mutating operation returns is ok, error
\* or confirm_required.
C15_DeleteTwoPhase ==
    [][/\ (toolCalls # <<>> /\ call.name \in MutatingTools)
            => res'.status \in {"ok", "error", "confirm_required"}
       /\ (/\ Dispatching("lov-delete")
           /\ isFile(fs, addressed(call.path))
           /\ ~forbiddenCallerPath(call.path))
            => /\ res'.size = Len(fs[addressed(call.path)])
               /\ IF call.confirm THEN res'.note = "Deletion requested"
                  ELSE res'.status = "confirm_required"]_vars

\* C16: delete leaves the file system unchanged, for every path, either
\* value of confirm and after any earlier operations of the message.
C16_DeleteChangesNothing ==
    [][Dispatching("lov-delete") => fs' = fs]_vars

\* a confirmed delete of an existing file, after an operation that changed
\* the workspace
C16_Witness ==
    /\ Len(toolMessages) = 2 /\ toolMessages[1].status = "ok"
    /\ res.op = "lov-delete" /\ res.confirm /\ res.path = pA
    /\ fs # orig /\ isFile(fs, abs(pA))

RECURSIVE globAccepts(_, _)
\* the four-token glob semantics: the glob accepts the whole path
globAccepts(glob, path) ==
    LET drop(k) == SubSeq(path, k + 1, Len(path))
        rest(k) == SubSeq(glob, k + 1, Len(glob))
        noSep(k) == \A i \in 1..k : path[i] # SEP
    IN  IF Len(glob) = 0 THEN Len(path) = 0
        ELSE IF startsWith(glob, <<"*", "*", "/">>)
        THEN \/ globAccepts(rest(3), path)
             \/ \E k \in 1..Len(path) : path[k] = SEP /\ globAccepts(rest(3), drop(k))
        ELSE IF startsWith(glob, <<"*", "*">>)
        THEN \E k \in 0..Len(path) : globAccepts(rest(2), drop(k))
        ELSE IF glob[1] = "*"
        THEN \E k \in 0..Len(path) : noSep(k) /\ globAccepts(rest(1), drop(k))
        ELSE IF glob[1] = "?"
        THEN Len(path) > 0 /\ path[1] # SEP /\ globAccepts(rest(1), drop(1))
        ELSE Len(path) > 0 /\ path[1] = glob[1] /\ globAccepts(rest(1), drop(1))

\* C17: the matcher compiled from a glob accepts exactly the workspace
\* paths the four-token glob semantics accept: a search with the include
\* pattern g reads exactly the files whose relative path g accepts.
C17_GlobSemantics ==
    [][(Dispatching("lov-search-files") /\ call.path2 = none)
       => \A q \in walkWorkspaceFiles(fs) :
              q \in res'.touched <=> globAccepts(call.path, pathRelative(WORKSPACE, q))]_vars

\* the other two forms of a workspace-relative path
pathForms(p) == {<<SEP>> \o p, <<SEP, SEP>> \o p, WorkspacePrefix \o p}

\* C18: for a workspace-relative path p, the caller paths p, p with leading
\* separators and "workspace/" followed by p address the same file in every
\* operation (same files afterwards, same result), and the path echoed in
\* the result has no leading separator and no "workspace/" prefix.
C18_PathFormsAgree ==
    [][(/\ toolCalls # <<>>
        /\ call.name \in FileTools \ {"lov-search-files"}
        /\ call.path \in RelPaths)
       => /\ \A v \in pathForms(call.path) :
                LET h == handled(fs, [call EXCEPT !.path = v])
                IN  h.fs = fs' /\ [h.r EXCEPT !.path = call.path] = res'
          /\ ~startsWith(res'.file, <<SEP>>)
          /\ ~startsWith(res'.file, WorkspacePrefix)]_vars

\* C19: parsing "start-end" with 1 <= start <= end returns the one pair
\* (start, end), and every pair the parser returns for an expression it
\* accepts has start >= 1 and end >= start; the view shows those lines.
C19_RangeRoundTrip ==
    [][(Dispatching("lov-view") /\ call.path = pA /\ Len(trim(call.text)) > 0)
       => LET ranges == parseLineRanges(call.text)
          IN  /\ \A start \in 1..(MaxLineNumber + 1) : \A end \in start..(MaxLineNumber + 1) :
                    call.text = rangeString(start, end)
                    => /\ ranges = <<<<Num(start), Num(end)>>>>
                       /\ res'.status = "ok"
                       /\ res'.body = joinLF(SubSeq(fileLines, start,
                                                    Min(end, Len(fileLines))))
              /\ res'.status = "ok"
                 => \A i \in 1..Len(ranges) :
                       /\ ~ranges[i][1].nan /\ ~ranges[i][2].nan
                       /\ ranges[i][1].v >= 1 /\ ranges[i][2].v >= ranges[i][1].v]_vars

\* the view of lines 2-3 of the file, and afterwards nothing left to run
C19_Witness ==
    /\ res.op = "lov-view" /\ res.path = pA /\ res.text = rangeString(2, 3)
    /\ res.status = "ok" /\ res.body = <<"y", LF, "x">>
    /\ parseLineRanges(res.text) = <<<<Num(2), Num(3)>>>>

\* C20: whenever rename returns an error, for any source, destination (the
\* source itself included) and confirm flag, no file has been moved,
\* created, removed or changed.
C20_FailedRenameChangesNothing ==
    [][(Dispatching("lov-rename") /\ res'.status = "error") => fs' = fs]_vars

\* C21: whenever a rename of a file within one directory returns ok, the
\* destination holds the content the source had before the call and the
\* source path no longer exists, also when the source is named as the
\* destination plus the backup suffix.
C21_RenameMovesContent ==
    [][(/\ Dispatching("lov-rename")
        /\ isFile(fs, addressed(call.path))
        /\ parentDirectory(call.path) = parentDirectory(call.path2)
        /\ res'.status = "ok")
       => /\ isFile(fs', addressed(call.path2))
          /\ fs'[addressed(call.path2)] = fs[addressed(call.path)]
          /\ ~existsSync(fs', addressed(call.path))]_vars

\* the backup of the file the call addresses
backupOf(path) == addressed(path) \o BackupSuffix

callOf(m) ==
    Call(m.op, m.path, m.path2, m.search, m.text, m.first, m.last, m.confirm, m.backupWorks)

\* running the calls of the results a and b one after another on the files f,
\* in some order that keeps the order of a and the order of b, gives exactly
\* these results and leaves the files fs
RECURSIVE replays(_, _, _)
replays(f, a, b) ==
    IF a = <<>> /\ b = <<>> THEN f = fs
    ELSE \/ /\ a # <<>>
            /\ LET h == handled(f, callOf(Head(a)))
               IN  h.r = Head(a) /\ replays(h.fs, Tail(a), b)
         \/ /\ b # <<>>
            /\ LET h == handled(f, callOf(Head(b)))
               IN  h.r = Head(b) /\ replays(h.fs, a, Tail(b))

Serial == replays(orig, toolMessages, peerMessages)

====
